---- MODULE Spec2Model ----
(***************************************************************************)
(* Model of scripts/code_stats.py (OpenHiker): the per-language line       *)
(* classifiers, the PlatformStats aggregation, and main/walk_project.      *)
(*                                                                         *)
(* A line of text is a sequence of one-character strings, so that strip,   *)
(* startswith, "in", slicing and count are computed as Python computes     *)
(* them.                                                                   *)
(***************************************************************************)
EXTENDS Integers, Sequences, FiniteSets, TLC

VARIABLES
    \* --- a caller of the line classifiers
    scan,   \* locals of the classifier call in progress (or of the last one)
    cpc,    \* position of the classifier caller: "idle", "scan", "returned"
    hist,   \* what the previous call left behind when this one was made
    \* --- PlatformStats aggregation
    arrivals,   \* the FileStats records of a run, in the order one scan yields them
    ps,         \* the PlatformStats that scan appends to
    workers,    \* PlatformStats of two partial scans sharing the same records
    taken,      \* indices of arrivals already appended by a partial scan
    \* --- a run of main
    root_is_dir,  \* os.path.isdir(root)
    fs,           \* the files below the root
    mpc,          \* position of main: "start", "walk", "report", "exited"
    stack,        \* directories os.walk has still to yield, next first
    dirpath,      \* the directory os.walk yielded last
    filenames,    \* files of dirpath the loop has still to handle, next first
    platforms,    \* walk_project's dict: platform name -> PlatformStats
    opened,       \* the files open() was called on, in order
    stdout,       \* what main printed as its result
    stderr,       \* what main printed as an error
    exit_status,  \* the process's exit status, -1 while it runs
    walk_called,  \* whether walk_project has been called
    \* --- the file size distribution of a report
    all_src,   \* the source-file records the distribution is made of
    rows       \* the rows made so far: bucket label and count

clsVars == <<scan, cpc, hist>>
aggVars == <<arrivals, ps, workers, taken>>
mainVars == <<root_is_dir, fs, mpc, stack, dirpath, filenames, platforms, opened,
              stdout, stderr, exit_status, walk_called>>
distVars == <<all_src, rows>>
vars == <<scan, cpc, hist, arrivals, ps, workers, taken, root_is_dir, fs, mpc, stack,
          dirpath, filenames, platforms, opened, stdout, stderr, exit_status,
          walk_called, all_src, rows>>

(***************************************************************************)
(* Bounds of the model.                                                    *)
(***************************************************************************)
MaxLines == 3
MaxFiles == 3
MaxTreeFiles == 3
MaxSrcFiles == 3

(***************************************************************************)
(* Python string operations on character sequences.                        *)
(***************************************************************************)
Whitespace == {" ", "\t", "\n"}

RECURSIVE LStrip(_)
LStrip(s) ==
    IF s = <<>> THEN <<>>
    ELSE IF Head(s) \in Whitespace THEN LStrip(Tail(s)) ELSE s

RECURSIVE RStrip(_)
RStrip(s) ==
    IF s = <<>> THEN <<>>
    ELSE IF s[Len(s)] \in Whitespace THEN RStrip(SubSeq(s, 1, Len(s) - 1)) ELSE s

\* str.strip()
Strip(s) == RStrip(LStrip(s))

\* s[n:]
From(s, n) == SubSeq(s, n + 1, Len(s))

\* s[:n]
Upto(s, n) == SubSeq(s, 1, IF n < Len(s) THEN n ELSE Len(s))

\* s.startswith(p)
StartsWith(s, p) == Len(s) >= Len(p) /\ SubSeq(s, 1, Len(p)) = p

\* p in s
Contains(s, p) == \E k \in 1..(Len(s) - Len(p) + 1) : SubSeq(s, k, k + Len(p) - 1) = p

\* s.count(p): non-overlapping occurrences, scanning left to right
RECURSIVE Count(_, _)
Count(s, p) ==
    IF Len(s) < Len(p) THEN 0
    ELSE IF StartsWith(s, p) THEN 1 + Count(From(s, Len(p)), p)
    ELSE Count(From(s, 1), p)

(***************************************************************************)
(* Delimiters the classifiers test for.                                    *)
(***************************************************************************)
DocBlockOpen == <<"/", "*", "*">>
BlockOpen    == <<"/", "*">>
BlockClose   == <<"*", "/">>
DocLine      == <<"/", "/", "/">>
LineComment  == <<"/", "/">>
TripleDouble == <<"\"", "\"", "\"">>
TripleSingle == <<"'", "'", "'">>
Hash         == <<"#">>
XmlOpen      == <<"<", "!", "-", "-">>
XmlClose     == <<"-", "-", ">">>
None         == <<>>

(***************************************************************************)
(* FileStats and the locals of a classifier call.                          *)
(***************************************************************************)
FileStats(path, language) ==
    [path |-> path, total_lines |-> 0, code_lines |-> 0, comment_lines |-> 0,
     docstring_lines |-> 0, blank_lines |-> 0, language |-> language]

Bump(st, counter) == [st EXCEPT !.stats[counter] = @ + 1]

\* Locals as they would be if the span flags lived outside the call
\* (module-level variables that no call resets).
LocalsLeaky(fn, language, lines) ==
    [fn |-> fn, lines |-> lines, pos |-> 1,
     stats |-> [FileStats("", language) EXCEPT !.total_lines = Len(lines)],
     in_block_comment |-> scan.in_block_comment, in_doc_block |-> scan.in_doc_block,
     in_docstring |-> scan.in_docstring,
     docstring_delimiter |-> scan.docstring_delimiter,
     in_comment |-> scan.in_comment]

\* The state a classifier's locals have before its loop starts.
Locals(fn, language, lines) ==
    [fn |-> fn, lines |-> lines, pos |-> 1,
     stats |-> [FileStats("", language) EXCEPT !.total_lines = Len(lines)],
     in_block_comment |-> FALSE, in_doc_block |-> FALSE,
     in_docstring |-> FALSE, docstring_delimiter |-> None,
     in_comment |-> FALSE]

(***************************************************************************)
(* One iteration of each classifier's loop: the locals after the line.     *)
(***************************************************************************)
\* SwiftLine with the `continue` after the blank count missing: the line falls
\* through and is counted a second time.
SwiftLineNoContinue(st, line) ==
    LET stripped == Strip(line)
        fell == Bump(st, "blank_lines")
    IN  IF stripped # <<>> THEN
            IF st.in_block_comment \/ st.in_doc_block THEN
                LET counted == IF st.in_doc_block THEN Bump(st, "docstring_lines")
                               ELSE Bump(st, "comment_lines")
                IN  IF Contains(stripped, BlockClose)
                    THEN [counted EXCEPT !.in_block_comment = FALSE, !.in_doc_block = FALSE]
                    ELSE counted
            ELSE IF StartsWith(stripped, DocBlockOpen) THEN
                [Bump(st, "docstring_lines") EXCEPT
                    !.in_doc_block = ~Contains(From(stripped, 3), BlockClose)]
            ELSE IF StartsWith(stripped, BlockOpen) THEN
                [Bump(st, "comment_lines") EXCEPT
                    !.in_block_comment = ~Contains(From(stripped, 2), BlockClose)]
            ELSE IF StartsWith(stripped, DocLine) THEN Bump(st, "docstring_lines")
            ELSE IF StartsWith(stripped, LineComment) THEN Bump(st, "comment_lines")
            ELSE Bump(st, "code_lines")
        ELSE IF st.in_doc_block THEN Bump(fell, "docstring_lines")
        ELSE IF st.in_block_comment THEN Bump(fell, "comment_lines")
        ELSE Bump(fell, "code_lines")

\* SwiftLine with the line-comment test placed before the doc-line test.
SwiftLineCommentBeforeDocLine(st, line) ==
    LET stripped == Strip(line) IN
    IF stripped = <<>> THEN Bump(st, "blank_lines")
    ELSE IF st.in_block_comment \/ st.in_doc_block THEN
        LET counted == IF st.in_doc_block THEN Bump(st, "docstring_lines")
                       ELSE Bump(st, "comment_lines")
        IN  IF Contains(stripped, BlockClose)
            THEN [counted EXCEPT !.in_block_comment = FALSE, !.in_doc_block = FALSE]
            ELSE counted
    ELSE IF StartsWith(stripped, DocBlockOpen) THEN
        [Bump(st, "docstring_lines") EXCEPT
            !.in_doc_block = ~Contains(From(stripped, 3), BlockClose)]
    ELSE IF StartsWith(stripped, BlockOpen) THEN
        [Bump(st, "comment_lines") EXCEPT
            !.in_block_comment = ~Contains(From(stripped, 2), BlockClose)]
    ELSE IF StartsWith(stripped, LineComment) THEN Bump(st, "comment_lines")
    ELSE IF StartsWith(stripped, DocLine) THEN Bump(st, "docstring_lines")
    ELSE Bump(st, "code_lines")

\* SwiftLine with the `continue` of the "/**" branch missing: the line goes on
\* to the "/*" test, which it passes too.
SwiftLineDocFallsThrough(st, line) ==
    LET stripped == Strip(line) IN
    IF stripped = <<>> THEN Bump(st, "blank_lines")
    ELSE IF st.in_block_comment \/ st.in_doc_block THEN
        LET counted == IF st.in_doc_block THEN Bump(st, "docstring_lines")
                       ELSE Bump(st, "comment_lines")
        IN  IF Contains(stripped, BlockClose)
            THEN [counted EXCEPT !.in_block_comment = FALSE, !.in_doc_block = FALSE]
            ELSE counted
    ELSE IF StartsWith(stripped, DocBlockOpen) THEN
        [Bump(Bump(st, "docstring_lines"), "comment_lines") EXCEPT
            !.in_doc_block = ~Contains(From(stripped, 3), BlockClose),
            !.in_block_comment = ~Contains(From(stripped, 2), BlockClose)]
    ELSE IF StartsWith(stripped, BlockOpen) THEN
        [Bump(st, "comment_lines") EXCEPT
            !.in_block_comment = ~Contains(From(stripped, 2), BlockClose)]
    ELSE IF StartsWith(stripped, DocLine) THEN Bump(st, "docstring_lines")
    ELSE IF StartsWith(stripped, LineComment) THEN Bump(st, "comment_lines")
    ELSE Bump(st, "code_lines")

SwiftLine(st, line) ==
    LET stripped == Strip(line) IN
    IF stripped = <<>> THEN Bump(st, "blank_lines")
    ELSE IF st.in_block_comment \/ st.in_doc_block THEN
        LET counted == IF st.in_doc_block THEN Bump(st, "docstring_lines")
                       ELSE Bump(st, "comment_lines")
        IN  IF Contains(stripped, BlockClose)
            THEN [counted EXCEPT !.in_block_comment = FALSE, !.in_doc_block = FALSE]
            ELSE counted
    ELSE IF StartsWith(stripped, DocBlockOpen) THEN
        [Bump(st, "docstring_lines") EXCEPT
            !.in_doc_block = ~Contains(From(stripped, 3), BlockClose)]
    ELSE IF StartsWith(stripped, BlockOpen) THEN
        [Bump(st, "comment_lines") EXCEPT
            !.in_block_comment = ~Contains(From(stripped, 2), BlockClose)]
    ELSE IF StartsWith(stripped, DocLine) THEN Bump(st, "docstring_lines")
    ELSE IF StartsWith(stripped, LineComment) THEN Bump(st, "comment_lines")
    ELSE Bump(st, "code_lines")

\* KotlinLine with an open span closed only by a line that starts with "*/".
KotlinLineCloseAtStart(st, line) ==
    LET stripped == Strip(line) IN
    IF stripped = <<>> THEN Bump(st, "blank_lines")
    ELSE IF st.in_block_comment \/ st.in_doc_block THEN
        LET counted == IF st.in_doc_block THEN Bump(st, "docstring_lines")
                       ELSE Bump(st, "comment_lines")
        IN  IF StartsWith(stripped, BlockClose)
            THEN [counted EXCEPT !.in_block_comment = FALSE, !.in_doc_block = FALSE]
            ELSE counted
    ELSE IF StartsWith(stripped, DocBlockOpen) THEN
        [Bump(st, "docstring_lines") EXCEPT
            !.in_doc_block = ~Contains(From(stripped, 3), BlockClose)]
    ELSE IF StartsWith(stripped, BlockOpen) THEN
        [Bump(st, "comment_lines") EXCEPT
            !.in_block_comment = ~Contains(From(stripped, 2), BlockClose)]
    ELSE IF StartsWith(stripped, DocLine) THEN Bump(st, "docstring_lines")
    ELSE IF StartsWith(stripped, LineComment) THEN Bump(st, "comment_lines")
    ELSE Bump(st, "code_lines")

\* KotlinLine without the "///" test: such a line is a "//" comment.
KotlinLineNoDocLine(st, line) ==
    LET stripped == Strip(line) IN
    IF stripped = <<>> THEN Bump(st, "blank_lines")
    ELSE IF st.in_block_comment \/ st.in_doc_block THEN
        LET counted == IF st.in_doc_block THEN Bump(st, "docstring_lines")
                       ELSE Bump(st, "comment_lines")
        IN  IF Contains(stripped, BlockClose)
            THEN [counted EXCEPT !.in_block_comment = FALSE, !.in_doc_block = FALSE]
            ELSE counted
    ELSE IF StartsWith(stripped, DocBlockOpen) THEN
        [Bump(st, "docstring_lines") EXCEPT
            !.in_doc_block = ~Contains(From(stripped, 3), BlockClose)]
    ELSE IF StartsWith(stripped, BlockOpen) THEN
        [Bump(st, "comment_lines") EXCEPT
            !.in_block_comment = ~Contains(From(stripped, 2), BlockClose)]
    ELSE IF StartsWith(stripped, LineComment) THEN Bump(st, "comment_lines")
    ELSE Bump(st, "code_lines")

KotlinLine(st, line) ==
    LET stripped == Strip(line) IN
    IF stripped = <<>> THEN Bump(st, "blank_lines")
    ELSE IF st.in_block_comment \/ st.in_doc_block THEN
        LET counted == IF st.in_doc_block THEN Bump(st, "docstring_lines")
                       ELSE Bump(st, "comment_lines")
        IN  IF Contains(stripped, BlockClose)
            THEN [counted EXCEPT !.in_block_comment = FALSE, !.in_doc_block = FALSE]
            ELSE counted
    ELSE IF StartsWith(stripped, DocBlockOpen) THEN
        [Bump(st, "docstring_lines") EXCEPT
            !.in_doc_block = ~Contains(From(stripped, 3), BlockClose)]
    ELSE IF StartsWith(stripped, BlockOpen) THEN
        [Bump(st, "comment_lines") EXCEPT
            !.in_block_comment = ~Contains(From(stripped, 2), BlockClose)]
    ELSE IF StartsWith(stripped, DocLine) THEN Bump(st, "docstring_lines")
    ELSE IF StartsWith(stripped, LineComment) THEN Bump(st, "comment_lines")
    ELSE Bump(st, "code_lines")

\* PythonLine closing an open docstring on either triple-quote delimiter.
PythonLineAnyDelimiter(st, line) ==
    LET stripped == Strip(line) IN
    IF stripped = <<>> THEN Bump(st, "blank_lines")
    ELSE IF st.in_docstring THEN
        IF Contains(stripped, TripleDouble) \/ Contains(stripped, TripleSingle)
        THEN [Bump(st, "docstring_lines") EXCEPT
                !.in_docstring = FALSE, !.docstring_delimiter = None]
        ELSE Bump(st, "docstring_lines")
    ELSE IF StartsWith(stripped, TripleDouble) \/ StartsWith(stripped, TripleSingle) THEN
        LET delimiter == Upto(stripped, 3) IN
        IF Count(stripped, delimiter) >= 2 /\ Len(stripped) > 3
        THEN Bump(st, "docstring_lines")
        ELSE [Bump(st, "docstring_lines") EXCEPT
                !.in_docstring = TRUE, !.docstring_delimiter = delimiter]
    ELSE IF StartsWith(stripped, Hash) THEN Bump(st, "comment_lines")
    ELSE Bump(st, "code_lines")

\* PythonLine without the single-line docstring test: every line that starts
\* with a triple quote enters the docstring state.
PythonLineAlwaysEnters(st, line) ==
    LET stripped == Strip(line) IN
    IF stripped = <<>> THEN Bump(st, "blank_lines")
    ELSE IF st.in_docstring THEN
        IF Contains(stripped, st.docstring_delimiter)
        THEN [Bump(st, "docstring_lines") EXCEPT
                !.in_docstring = FALSE, !.docstring_delimiter = None]
        ELSE Bump(st, "docstring_lines")
    ELSE IF StartsWith(stripped, TripleDouble) \/ StartsWith(stripped, TripleSingle) THEN
        LET delimiter == Upto(stripped, 3) IN
        [Bump(st, "docstring_lines") EXCEPT
            !.in_docstring = TRUE, !.docstring_delimiter = delimiter]
    ELSE IF StartsWith(stripped, Hash) THEN Bump(st, "comment_lines")
    ELSE Bump(st, "code_lines")

PythonLine(st, line) ==
    LET stripped == Strip(line) IN
    IF stripped = <<>> THEN Bump(st, "blank_lines")
    ELSE IF st.in_docstring THEN
        IF Contains(stripped, st.docstring_delimiter)
        THEN [Bump(st, "docstring_lines") EXCEPT
                !.in_docstring = FALSE, !.docstring_delimiter = None]
        ELSE Bump(st, "docstring_lines")
    ELSE IF StartsWith(stripped, TripleDouble) \/ StartsWith(stripped, TripleSingle) THEN
        LET delimiter == Upto(stripped, 3) IN
        IF Count(stripped, delimiter) >= 2 /\ Len(stripped) > 3
        THEN Bump(st, "docstring_lines")
        ELSE [Bump(st, "docstring_lines") EXCEPT
                !.in_docstring = TRUE, !.docstring_delimiter = delimiter]
    ELSE IF StartsWith(stripped, Hash) THEN Bump(st, "comment_lines")
    ELSE Bump(st, "code_lines")

\* XmlLine with the open-comment test placed before the blank test.
XmlLineCommentFirst(st, line) ==
    LET stripped == Strip(line) IN
    IF st.in_comment THEN
        IF Contains(stripped, XmlClose)
        THEN [Bump(st, "comment_lines") EXCEPT !.in_comment = FALSE]
        ELSE Bump(st, "comment_lines")
    ELSE IF stripped = <<>> THEN Bump(st, "blank_lines")
    ELSE IF StartsWith(stripped, XmlOpen) THEN
        IF ~Contains(From(stripped, 4), XmlClose)
        THEN [Bump(st, "comment_lines") EXCEPT !.in_comment = TRUE]
        ELSE Bump(st, "comment_lines")
    ELSE Bump(st, "code_lines")

XmlLine(st, line) ==
    LET stripped == Strip(line) IN
    IF stripped = <<>> THEN Bump(st, "blank_lines")
    ELSE IF st.in_comment THEN
        IF Contains(stripped, XmlClose)
        THEN [Bump(st, "comment_lines") EXCEPT !.in_comment = FALSE]
        ELSE Bump(st, "comment_lines")
    ELSE IF StartsWith(stripped, XmlOpen) THEN
        IF ~Contains(From(stripped, 4), XmlClose)
        THEN [Bump(st, "comment_lines") EXCEPT !.in_comment = TRUE]
        ELSE Bump(st, "comment_lines")
    ELSE Bump(st, "code_lines")

MarkdownLine(st, line) ==
    IF Strip(line) # <<>> THEN Bump(st, "docstring_lines")
    ELSE Bump(st, "blank_lines")

\* YamlLine taking "//" for a comment marker as the fallback classifier does.
YamlLineSlashComment(st, line) ==
    LET stripped == Strip(line) IN
    IF stripped = <<>> THEN Bump(st, "blank_lines")
    ELSE IF StartsWith(stripped, LineComment) \/ StartsWith(stripped, Hash)
         THEN Bump(st, "comment_lines")
    ELSE Bump(st, "code_lines")

YamlLine(st, line) ==
    LET stripped == Strip(line) IN
    IF stripped = <<>> THEN Bump(st, "blank_lines")
    ELSE IF StartsWith(stripped, Hash) THEN Bump(st, "comment_lines")
    ELSE Bump(st, "code_lines")

GenericLine(st, line) ==
    LET stripped == Strip(line) IN
    IF stripped = <<>> THEN Bump(st, "blank_lines")
    ELSE IF StartsWith(stripped, LineComment) \/ StartsWith(stripped, Hash)
         THEN Bump(st, "comment_lines")
    ELSE Bump(st, "code_lines")


Step(st, line) ==
    CASE st.fn = "classify_swift_lines"    -> SwiftLine(st, line)
      [] st.fn = "classify_kotlin_lines"   -> KotlinLine(st, line)
      [] st.fn = "classify_python_lines"   -> PythonLine(st, line)
      [] st.fn = "classify_xml_lines"      -> XmlLine(st, line)
      [] st.fn = "classify_markdown_lines" -> MarkdownLine(st, line)
      [] st.fn = "classify_yaml_lines"     -> YamlLine(st, line)
      [] st.fn = "classify_generic_lines"  -> GenericLine(st, line)

\* for line in lines: ...
LoopBody(st) == [Step(st, st.lines[st.pos]) EXCEPT !.pos = @ + 1]

RECURSIVE Loop(_)
Loop(st) == IF st.pos > Len(st.lines) THEN st ELSE Loop(LoopBody(st))

\* A whole call of a classifier: the FileStats it returns.
Classify(fn, language, lines) == Loop(Locals(fn, language, lines)).stats

(***************************************************************************)
(* Inputs: the lines a file may hold, per grammar family.  Each set holds  *)
(* the openers, the closers, one-line spans, overlapping delimiters and    *)
(* whitespace-only lines of its grammar.                                   *)
(***************************************************************************)
BraceLines ==
    {<<" ", "\n">>,
     <<"/", "*", "*", "\n">>,
     <<"/", "*", "*", "d", "*", "/">>,
     <<"/", "*">>,
     <<"/", "*", "c", "*", "/">>,
     <<" ", "*", "/", "\n">>,
     <<"/", "/", "/", "d">>,
     <<"/", "/", "c">>,
     <<"x", "\n">>,
     <<"/", "*", "*", "/">>,
     <<"/", "*", "/">>}

PythonLines ==
    {<<"\t", "\n">>,
     <<"\"", "\"", "\"">>,
     <<"'", "'", "'">>,
     <<"\"", "\"", "\"", "d", "\"", "\"", "\"">>,
     <<"#", "c">>,
     <<" ", "x", "\n">>,
     <<"\"", "\"", "\"", "\"">>,
     <<"\"", "\"", "\"", "\"", "\"", "\"">>,
     <<"\"", "\"", "\"", "'", "'", "'">>,
     <<"x", "\"", "\"", "\"">>}

XmlLines ==
    {<<" ", "\n">>,
     <<"<", "!", "-", "-">>,
     <<"-", "-", ">", "\n">>,
     <<"<", "!", "-", "-", "c", "-", "-", ">">>,
     <<"<", "a", ">">>,
     <<"<", "!", "-", "-", ">">>,
     <<"x", "-", "-", ">">>}

PlainLines ==
    {<<" ", "\n">>,
     <<"#", "c">>,
     <<" ", "/", "/", "c", "\n">>,
     <<"x">>,
     <<"-", "#">>}


RECURSIVE SeqsUpTo(_, _)
SeqsUpTo(S, n) ==
    IF n = 0 THEN {<<>>}
    ELSE LET shorter == SeqsUpTo(S, n - 1)
         IN  shorter \cup {Append(ls, l) : ls \in shorter, l \in S}

Classifiers ==
    {"classify_swift_lines", "classify_kotlin_lines", "classify_python_lines",
     "classify_xml_lines", "classify_markdown_lines", "classify_yaml_lines",
     "classify_generic_lines"}

LinesFor(fn) ==
    CASE fn \in {"classify_swift_lines", "classify_kotlin_lines"} -> BraceLines
      [] fn = "classify_python_lines" -> PythonLines
      [] fn = "classify_xml_lines" -> XmlLines
      [] OTHER -> PlainLines

\* The language tag each classifier writes; the fallback takes it from its caller.
LanguagesFor(fn) ==
    CASE fn = "classify_swift_lines" -> {"Swift"}
      [] fn = "classify_kotlin_lines" -> {"Kotlin"}
      [] fn = "classify_python_lines" -> {"Python"}
      [] fn = "classify_xml_lines" -> {"XML"}
      [] fn = "classify_markdown_lines" -> {"Markdown"}
      [] fn = "classify_yaml_lines" -> {"YAML"}
      [] fn = "classify_generic_lines" -> {"TOML", "JSON"}

\* Whether a multi-line span is open in the locals.
Open(st) == st.in_block_comment \/ st.in_doc_block \/ st.in_docstring \/ st.in_comment

(***************************************************************************)
(* The classifiers, called any number of times, one line per step.         *)
(***************************************************************************)
\* Before the first call there are no locals.
NoCall ==
    [fn |-> "classify_swift_lines", lines |-> <<>>, pos |-> 1,
     stats |-> FileStats("", ""),
     in_block_comment |-> FALSE, in_doc_block |-> FALSE,
     in_docstring |-> FALSE, docstring_delimiter |-> None,
     in_comment |-> FALSE]

ClsInit ==
    /\ scan = NoCall
    /\ cpc = "idle"
    /\ hist = [after_open |-> FALSE]

\* A caller invokes classifier fn on lines: the callee's locals are created.
\* hist notes whether the call before this one ended inside an open span.
Call(fn, language, lines) ==
    /\ cpc \in {"idle", "returned"}
    /\ scan' = Locals(fn, language, lines)
    /\ cpc' = "scan"
    /\ hist' = [after_open |-> Open(scan)]

Iterate(fn) ==
    /\ cpc = "scan"
    /\ scan.fn = fn
    /\ scan.pos <= Len(scan.lines)
    /\ scan' = LoopBody(scan)
    /\ UNCHANGED <<cpc, hist>>

classify_swift_lines    == Iterate("classify_swift_lines")
classify_kotlin_lines   == Iterate("classify_kotlin_lines")
classify_python_lines   == Iterate("classify_python_lines")
classify_xml_lines      == Iterate("classify_xml_lines")
classify_markdown_lines == Iterate("classify_markdown_lines")
classify_yaml_lines     == Iterate("classify_yaml_lines")
classify_generic_lines  == Iterate("classify_generic_lines")

\* The loop is over: scan.stats is the record the call returns.
AtReturn == cpc = "scan" /\ scan.pos > Len(scan.lines)

\* return stats.  The record goes to the caller and the call's input and
\* counters are gone; the span flags are left as the call left them, so that
\* a later call that did not create its own would find them.
Return ==
    /\ AtReturn
    /\ cpc' = "returned"
    /\ scan' = [scan EXCEPT !.lines = <<>>, !.pos = 1,
                            !.stats = FileStats("", scan.stats.language)]
    /\ UNCHANGED hist

\* A caller is free to call any classifier on any lines.
AnyCall ==
    /\ cpc \in {"idle", "returned"}
    /\ \E fn \in Classifiers :
         \E language \in LanguagesFor(fn), lines \in SeqsUpTo(LinesFor(fn), MaxLines) :
            Call(fn, language, lines)

(***************************************************************************)
(* PlatformStats: a name and the list of FileStats appended to it; its     *)
(* totals are properties computed from the list.                           *)
(***************************************************************************)
PlatformStats(name) == [name |-> name, files |-> <<>>]

\* sum(f.<field> for f in files), left to right
RECURSIVE SumOver(_, _)
SumOver(files, field) ==
    IF files = <<>> THEN 0
    ELSE Head(files)[field] + SumOver(Tail(files), field)

total_files(p) == Len(p.files)

total_lines(p) == SumOver(p.files, "total_lines")

code_lines(p) == SumOver(p.files, "code_lines")

comment_lines(p) == SumOver(p.files, "comment_lines")

docstring_lines(p) == SumOver(p.files, "docstring_lines")

blank_lines(p) == SumOver(p.files, "blank_lines")

\* sorted(...): the ascending arrangement of a list of integers
RECURSIVE InsertSorted(_, _)
InsertSorted(sorted, n) ==
    IF sorted = <<>> THEN <<n>>
    ELSE IF n < Head(sorted) THEN <<n>> \o sorted
    ELSE <<Head(sorted)>> \o InsertSorted(Tail(sorted), n)

RECURSIVE Sorted(_)
Sorted(ns) ==
    IF ns = <<>> THEN <<>>
    ELSE InsertSorted(Sorted(SubSeq(ns, 1, Len(ns) - 1)), ns[Len(ns)])

\* The file lengths in list order: file_lengths without the sorted() call.
FileLengthsUnsorted(p) == [k \in 1..Len(p.files) |-> p.files[k].total_lines]

file_lengths(p) == Sorted([k \in 1..Len(p.files) |-> p.files[k].total_lines])

\* Records as the classifiers produce them, for the aggregation to sum.
Record(path, fn, language, lines) == [Classify(fn, language, lines) EXCEPT !.path = path]

SampleRecords ==
    {Record("Empty.swift", "classify_swift_lines", "Swift", <<>>),
     Record("Doc.swift", "classify_swift_lines", "Swift",
            << <<"/", "*", "*", "\n">>, <<" ", "*", "/", "\n">>, <<"x", "\n">> >>),
     Record("notes.md", "classify_markdown_lines", "Markdown",
            << <<"#", "c">>, <<" ", "\n">>, <<"x">> >>),
     Record("tool.py", "classify_python_lines", "Python", << <<"#", "c">> >>)}

NoAggregation ==
    /\ arrivals = <<>>
    /\ ps = PlatformStats("")
    /\ workers = <<PlatformStats(""), PlatformStats("")>>
    /\ taken = {}

AggInit ==
    /\ arrivals \in SeqsUpTo(SampleRecords, MaxFiles)
    /\ ps = PlatformStats("iOS")
    /\ workers = <<PlatformStats("iOS"), PlatformStats("iOS")>>
    /\ taken = {}

\* platforms[platform].files.append(stats), in one scan's order
files_append ==
    /\ Len(ps.files) < Len(arrivals)
    /\ ps' = [ps EXCEPT !.files = Append(@, arrivals[Len(ps.files) + 1])]
    /\ UNCHANGED <<arrivals, workers, taken>>

\* The same append made by partial scan w, which meets the files in its own order.
WorkerAppend(w, k) ==
    /\ k \in DOMAIN arrivals
    /\ k \notin taken
    /\ workers' = [workers EXCEPT ![w].files = Append(@, arrivals[k])]
    /\ taken' = taken \cup {k}
    /\ UNCHANGED <<arrivals, ps>>

AnyWorkerAppend == \E w \in 1..2, k \in 1..MaxFiles : WorkerAppend(w, k)

(***************************************************************************)
(* File and directory names.  A name is a sequence of chunks in which      *)
(* every "." is a chunk of its own, so that startswith(".") and            *)
(* Path.suffix are computed on it.                                         *)
(***************************************************************************)
Dot == <<".">>

Ext(x) == <<".", x>>

\* str.lower() on the chunks of the names in use
LowerChunk(c) ==
    CASE c = "KT" -> "kt"
      [] c = "MD" -> "md"
      [] OTHER -> c

\* The index of the last "." of a name, 0 if it has none.
LastDot(name) ==
    LET dots == {k \in 1..Len(name) : name[k] = "."}
    IN  IF dots = {} THEN 0 ELSE CHOOSE k \in dots : \A j \in dots : j <= k

\* Path(fname).suffix.lower(): from the last dot on, unless that dot starts or
\* ends the name.
SuffixLower(name) ==
    LET i == LastDot(name)
        suffix == IF i > 1 /\ i < Len(name) THEN SubSeq(name, i, Len(name)) ELSE <<>>
    IN  [k \in 1..Len(suffix) |-> LowerChunk(suffix[k])]

\* CLASSIFIERS: extension -> classifier
CLASSIFIERS ==
    [e \in {Ext("swift"), Ext("kt"), Ext("kts"), Ext("py"), Ext("xml"), Ext("md"),
            Ext("yml"), Ext("yaml")} |->
        CASE e = Ext("swift") -> "classify_swift_lines"
          [] e \in {Ext("kt"), Ext("kts")} -> "classify_kotlin_lines"
          [] e = Ext("py") -> "classify_python_lines"
          [] e = Ext("xml") -> "classify_xml_lines"
          [] e = Ext("md") -> "classify_markdown_lines"
          [] e \in {Ext("yml"), Ext("yaml")} -> "classify_yaml_lines"]

\* LANGUAGE_NAMES.get(ext, ext.lstrip(".").upper()) for the extensions that
\* reach the fallback classifier
LANGUAGE_NAMES(ext) ==
    CASE ext = Ext("toml") -> "TOML"
      [] ext = Ext("properties") -> "Properties"
      [] ext = Ext("json") -> "JSON"

SKIP_DIRS ==
    {<<".", "git">>, <<".", "gradle">>, <<".", "idea">>, <<"build">>,
     <<"DerivedData">>, <<"Pods">>, <<".", "build">>, <<"__pycache__">>,
     <<"node_modules">>, <<".", "claude">>, <<"xcuserdata">>, <<"xcshareddata">>,
     <<"Assets", ".", "xcassets">>, <<"WatchAssets", ".", "xcassets">>,
     <<"MacAssets", ".", "xcassets">>, <<"Preview Content">>, <<"Screenshots">>}

SOURCE_EXTENSIONS == {Ext("swift"), Ext("kt"), Ext("kts"), Ext("py")}

DOC_EXTENSIONS == {Ext("md")}

CONFIG_EXTENSIONS ==
    {Ext("xml"), Ext("yml"), Ext("yaml"), Ext("toml"), Ext("properties"), Ext("json")}

\* A file: the directory names from the root down, its name, whether open()
\* and readlines() succeed on it, and its lines.
Parts(f) == f.dir \o <<f.name>>

detect_platform(parts) ==
    IF parts = <<>> THEN "Root"
    ELSE LET first == parts[1] IN
         IF first = <<"OpenHiker iOS">> THEN "iOS"
         ELSE IF first = <<"OpenHiker watchOS">> THEN "watchOS"
         ELSE IF first = <<"OpenHiker macOS">> THEN "macOS"
         ELSE IF first = <<"OpenHikerAndroid">> THEN
            IF Len(parts) > 1 /\ parts[2] = <<"core">> THEN "Android Core"
            ELSE IF Len(parts) > 1 /\ parts[2] = <<"app">> THEN "Android App"
            ELSE "Android (config)"
         ELSE IF first = <<"Shared">> THEN "Shared (Apple)"
         ELSE IF first = <<"OpenHikerTests">> THEN "Tests"
         ELSE IF first = <<"docs">> THEN "Documentation"
         ELSE IF first = <<".", "github">> THEN "CI/CD"
         ELSE IF first = <<"route-repo-template">> THEN "Route Template"
         ELSE IF first = <<"scripts">> THEN "Scripts"
         ELSE "Root"

\* The absolute path analyze_file is given: the root joined with the parts.
AbsPath(f) == <<"<root>">> \o Parts(f)

\* analyze_file with the I/O error handler returning an all-zero record
\* instead of None.
AnalyzeFileEmptyOnError(f) ==
    LET ext == SuffixLower(f.name) IN
    IF ext \notin DOMAIN CLASSIFIERS /\ ext \notin CONFIG_EXTENSIONS THEN <<>>
    ELSE IF ~f.readable THEN << FileStats(AbsPath(f), "") >>
    ELSE IF ext \in DOMAIN CLASSIFIERS
         THEN << [Classify(CLASSIFIERS[ext],
                           CHOOSE l \in LanguagesFor(CLASSIFIERS[ext]) : TRUE, f.lines)
                    EXCEPT !.path = AbsPath(f)] >>
    ELSE << [Classify("classify_generic_lines", LANGUAGE_NAMES(ext), f.lines)
               EXCEPT !.path = AbsPath(f)] >>

\* analyze_file: <<>> for None, <<stats>> for a record.
analyze_file(f) ==
    LET ext == SuffixLower(f.name) IN
    IF ext \notin DOMAIN CLASSIFIERS /\ ext \notin CONFIG_EXTENSIONS THEN <<>>
    ELSE IF ~f.readable THEN <<>>
    ELSE IF ext \in DOMAIN CLASSIFIERS
         THEN << [Classify(CLASSIFIERS[ext],
                           CHOOSE l \in LanguagesFor(CLASSIFIERS[ext]) : TRUE, f.lines)
                    EXCEPT !.path = AbsPath(f)] >>
    ELSE << [Classify("classify_generic_lines", LANGUAGE_NAMES(ext), f.lines)
               EXCEPT !.path = AbsPath(f)] >>

\* The pruning rule of walk_project: whether os.walk descends into d.
\* Keep without the exception for ".github": every hidden directory is pruned.
KeepNoException(d) == d \notin SKIP_DIRS /\ ~StartsWith(d, Dot)

Keep(d) == (d \notin SKIP_DIRS /\ ~StartsWith(d, Dot)) \/ d = <<".", "github">>

(***************************************************************************)
(* The trees main is run on: any choice of at most MaxTreeFiles of these   *)
(* files, each readable or not.  A directory exists when a chosen file     *)
(* lies below it.                                                          *)
(***************************************************************************)
FileSlots ==
    {[dir |-> <<>>, name |-> <<"README", ".", "MD">>,
      lines |-> << <<"#", "c">>, <<" ", "\n">> >>],
     [dir |-> << <<"OpenHikerAndroid">>, <<"core">> >>, name |-> <<"A", ".", "kt">>,
      lines |-> << <<"/", "*", "*", "\n">>, <<"x", "\n">> >>],
     [dir |-> << <<"OpenHikerAndroid">>, <<"build">> >>, name |-> <<"B", ".", "KT">>,
      lines |-> << <<"x", "\n">> >>],
     [dir |-> << <<".", "github">> >>, name |-> <<"ci", ".", "yml">>,
      lines |-> << <<"#", "c">>, <<"x">> >>],
     [dir |-> << <<"docs">>, <<".", "github">> >>, name |-> <<"n", ".", "md">>,
      lines |-> << <<"x">> >>],
     [dir |-> << <<".", "cache">> >>, name |-> <<"h", ".", "swift">>,
      lines |-> << <<"x">> >>],
     [dir |-> << <<"scripts">> >>, name |-> <<"s", ".", "py">>,
      lines |-> << <<"\"", "\"", "\"">>, <<"d">> >>],
     [dir |-> << <<"scripts">> >>, name |-> <<"c", ".", "json">>,
      lines |-> << <<"/", "/", "c">>, <<"x">> >>],
     [dir |-> << <<"scripts">> >>, name |-> <<"t", ".", "txt">>,
      lines |-> << <<"x">> >>]}

Trees ==
    {t \in SUBSET {[dir |-> s.dir, name |-> s.name, lines |-> s.lines, readable |-> r] :
                      s \in FileSlots, r \in BOOLEAN} :
        /\ Cardinality(t) <= MaxTreeFiles
        /\ \A f, g \in t : Parts(f) = Parts(g) => f = g}

\* The names of the subdirectories of directory d, and the files in it.
SubDirs(tree, d) ==
    {f.dir[Len(d) + 1] : f \in {g \in tree : Len(g.dir) > Len(d) /\ SubSeq(g.dir, 1, Len(d)) = d}}

FilesIn(tree, d) == {f \in tree : f.dir = d}

\* The orders a directory listing may come in.
Perms(S) ==
    {q \in [1..Cardinality(S) -> S] : \A i, j \in 1..Cardinality(S) : i # j => q[i] # q[j]}

OutputModes == {"terminal", "json", "markdown_file", "markdown_stdout"}

(***************************************************************************)
(* main and walk_project.                                                  *)
(***************************************************************************)
NoRun ==
    /\ root_is_dir = FALSE
    /\ fs = {}
    /\ mpc = "idle"
    /\ stack = <<>>
    /\ dirpath = <<>>
    /\ filenames = <<>>
    /\ platforms = <<>>
    /\ opened = <<>>
    /\ stdout = ""
    /\ stderr = ""
    /\ exit_status = -1
    /\ walk_called = FALSE

MainInit ==
    /\ root_is_dir \in BOOLEAN
    /\ fs \in (IF root_is_dir THEN Trees ELSE {{}})
    /\ mpc = "start"
    /\ stack = <<>>
    /\ dirpath = <<>>
    /\ filenames = <<>>
    /\ platforms = <<>>
    /\ opened = <<>>
    /\ stdout = ""
    /\ stderr = ""
    /\ exit_status = -1
    /\ walk_called = FALSE

\* main with the os.path.isdir test missing: walk_project is called on any root.
main_unchecked ==
    /\ mpc = "start"
    /\ mpc' = "walk"
    /\ walk_called' = TRUE
    /\ platforms' = <<>>
    /\ stack' = IF root_is_dir THEN << <<>> >> ELSE <<>>
    /\ UNCHANGED <<root_is_dir, fs, dirpath, filenames, opened, stdout, stderr, exit_status>>

\* main up to the call of walk_project: a root that is no directory is
\* reported on stderr and the process exits with status 1; otherwise
\* walk_project starts with no platforms and os.walk at the root.
main ==
    /\ mpc = "start"
    /\ IF ~root_is_dir
       THEN /\ stderr' = "Error: root is not a directory"
            /\ exit_status' = 1
            /\ mpc' = "exited"
            /\ UNCHANGED <<walk_called, platforms, stack>>
       ELSE /\ mpc' = "walk"
            /\ walk_called' = TRUE
            /\ platforms' = <<>>
            /\ stack' = << <<>> >>
            /\ UNCHANGED <<stderr, exit_status>>
    /\ UNCHANGED <<root_is_dir, fs, dirpath, filenames, opened, stdout>>

\* os.walk yields the next directory, top-down and depth-first; the loop body
\* prunes dirnames in place, which decides where os.walk descends later.
walk_dir ==
    /\ mpc = "walk"
    /\ filenames = <<>>
    /\ stack # <<>>
    /\ LET d == Head(stack)
           dirnames == {n \in SubDirs(fs, d) : Keep(n)}
       IN  /\ dirpath' = d
           /\ \E order \in Perms(dirnames) :
                 stack' = [k \in 1..Len(order) |-> Append(d, order[k])] \o Tail(stack)
           /\ \E listing \in Perms(FilesIn(fs, d)) : filenames' = listing
    /\ UNCHANGED <<root_is_dir, fs, mpc, platforms, opened, stdout, stderr,
                   exit_status, walk_called>>

\* walk_file with the group created anew for every record, replacing the
\* PlatformStats that was there.
walk_file_new_group ==
    /\ mpc = "walk"
    /\ filenames # <<>>
    /\ LET f == Head(filenames)
           ext == SuffixLower(f.name)
           all_exts == SOURCE_EXTENSIONS \cup DOC_EXTENSIONS \cup CONFIG_EXTENSIONS
           stats == analyze_file(f)
           platform == detect_platform(Parts(f))
       IN  IF ext \notin all_exts THEN UNCHANGED <<platforms, opened>>
           ELSE /\ opened' = Append(opened, Parts(f))
                /\ IF stats = <<>> THEN UNCHANGED platforms
                   ELSE platforms' =
                          [p \in DOMAIN platforms \cup {platform} |->
                             IF p = platform
                             THEN [name |-> p,
                                   files |-> << [stats[1] EXCEPT !.path = Parts(f)] >>]
                             ELSE platforms[p]]
    /\ filenames' = Tail(filenames)
    /\ UNCHANGED <<root_is_dir, fs, mpc, stack, dirpath, stdout, stderr,
                   exit_status, walk_called>>

\* One iteration of `for fname in filenames`: files of other extensions are
\* passed over; the others are analysed and, unless analyze_file returns
\* None, appended to their platform's PlatformStats, created when missing.
walk_file ==
    /\ mpc = "walk"
    /\ filenames # <<>>
    /\ LET f == Head(filenames)
           ext == SuffixLower(f.name)
           all_exts == SOURCE_EXTENSIONS \cup DOC_EXTENSIONS \cup CONFIG_EXTENSIONS
           stats == analyze_file(f)
           platform == detect_platform(Parts(f))
       IN  IF ext \notin all_exts THEN UNCHANGED <<platforms, opened>>
           ELSE /\ opened' = Append(opened, Parts(f))
                /\ IF stats = <<>> THEN UNCHANGED platforms
                   ELSE platforms' =
                          [p \in DOMAIN platforms \cup {platform} |->
                             [name |-> p,
                              files |-> (IF p \in DOMAIN platforms
                                         THEN platforms[p].files ELSE <<>>)
                                        \o (IF p = platform
                                            THEN << [stats[1] EXCEPT !.path = Parts(f)] >>
                                            ELSE <<>>)]]
    /\ filenames' = Tail(filenames)
    /\ UNCHANGED <<root_is_dir, fs, mpc, stack, dirpath, stdout, stderr,
                   exit_status, walk_called>>

\* return platforms
walk_return ==
    /\ mpc = "walk"
    /\ filenames = <<>>
    /\ stack = <<>>
    /\ mpc' = "report"
    /\ UNCHANGED <<root_is_dir, fs, stack, dirpath, filenames, platforms, opened,
                   stdout, stderr, exit_status, walk_called>>

\* main after walk_project: the empty-result message, or the report in the
\* mode the arguments select.
main_report(mode) ==
    /\ mpc = "report"
    /\ stdout' = IF DOMAIN platforms = {} THEN "No source files found." ELSE mode
    /\ exit_status' = 0
    /\ mpc' = "exited"
    /\ UNCHANGED <<root_is_dir, fs, stack, dirpath, filenames, platforms, opened,
                   stderr, walk_called>>

AnyReport == \E mode \in OutputModes : main_report(mode)

(***************************************************************************)
(* The file size distribution: SIZE_BUCKETS and _bucket_count, called once *)
(* per bucket by report_file_size_distribution.                            *)
(***************************************************************************)
\* float("inf"): above every file length (the lengths here stay below it).
Infinity == 1000000

\* <<low, high, label>>
SIZE_BUCKETS ==
    << <<0, 50, "1-50 lines">>,
       <<50, 100, "51-100 lines">>,
       <<100, 200, "101-200 lines">>,
       <<200, 300, "201-300 lines">>,
       <<300, 500, "301-500 lines">>,
       <<500, 1000, "501-1000 lines">>,
       <<1000, Infinity, "1000+ lines">> >>

\* sum(1 for f in files if f.total_lines <= high), left to right
RECURSIVE CountAtMost(_, _)
CountAtMost(files, high) ==
    IF files = <<>> THEN 0
    ELSE (IF Head(files).total_lines <= high THEN 1 ELSE 0)
         + CountAtMost(Tail(files), high)

\* sum(1 for f in files if low < f.total_lines <= high), left to right
RECURSIVE CountBetween(_, _, _)
CountBetween(files, low, high) ==
    IF files = <<>> THEN 0
    ELSE (IF low < Head(files).total_lines /\ Head(files).total_lines <= high
          THEN 1 ELSE 0)
         + CountBetween(Tail(files), low, high)

bucket_count(files, low, high) ==
    IF low = 0 THEN CountAtMost(files, high)
    ELSE CountBetween(files, low, high)

\* Lengths of source files: an empty file, and the edges of the buckets.
SampleLengths == {0, 1, 50, 51, 100, 1000, 1001}

\* The record of a source file of n lines, all of them code.
SourceFile(n) ==
    [FileStats(<<"m", ".", "py">>, "Python") EXCEPT !.total_lines = n, !.code_lines = n]

NoDistribution == all_src = <<>> /\ rows = <<>>

\* all_src = _collect_src_files(platforms)
DistInit ==
    /\ all_src \in SeqsUpTo({SourceFile(n) : n \in SampleLengths}, MaxSrcFiles)
    /\ rows = <<>>

\* if not all_src: print("  No source files found."); return
report_no_source_files ==
    /\ all_src = <<>>
    /\ rows = <<>>
    /\ rows' = << [label |-> "No source files found.", count |-> 0] >>
    /\ UNCHANGED all_src

\* for low, high, label in SIZE_BUCKETS: count = _bucket_count(all_src, low, high)
report_file_size_distribution ==
    /\ all_src # <<>>
    /\ Len(rows) < Len(SIZE_BUCKETS)
    /\ LET bucket == SIZE_BUCKETS[Len(rows) + 1]
       IN  rows' = Append(rows, [label |-> bucket[3],
                                 count |-> bucket_count(all_src, bucket[1], bucket[2])])
    /\ UNCHANGED all_src

(***************************************************************************)
(* Four specifications over the same variables: the classifiers called     *)
(* any number of times (Spec), the aggregation of one run's records        *)
(* (SpecAgg), a run of main over a tree (SpecMain), and the file size      *)
(* distribution of a report (SpecDist).                                    *)
(***************************************************************************)
NoClassifierCall == scan = NoCall /\ cpc = "idle" /\ hist = [after_open |-> FALSE]

Init == ClsInit /\ NoAggregation /\ NoRun /\ NoDistribution

Next ==
    \/ AnyCall /\ UNCHANGED <<aggVars, mainVars, distVars>>
    \/ classify_swift_lines /\ UNCHANGED <<aggVars, mainVars, distVars>>
    \/ classify_kotlin_lines /\ UNCHANGED <<aggVars, mainVars, distVars>>
    \/ classify_python_lines /\ UNCHANGED <<aggVars, mainVars, distVars>>
    \/ classify_xml_lines /\ UNCHANGED <<aggVars, mainVars, distVars>>
    \/ classify_markdown_lines /\ UNCHANGED <<aggVars, mainVars, distVars>>
    \/ classify_yaml_lines /\ UNCHANGED <<aggVars, mainVars, distVars>>
    \/ classify_generic_lines /\ UNCHANGED <<aggVars, mainVars, distVars>>
    \/ Return /\ UNCHANGED <<aggVars, mainVars, distVars>>

Spec == Init /\ [][Next]_vars

AggSpecInit == AggInit /\ NoClassifierCall /\ NoRun /\ NoDistribution

AggSpecNext ==
    \/ files_append /\ UNCHANGED <<clsVars, mainVars, distVars>>
    \/ AnyWorkerAppend /\ UNCHANGED <<clsVars, mainVars, distVars>>

SpecAgg == AggSpecInit /\ [][AggSpecNext]_vars

MainSpecInit == MainInit /\ NoClassifierCall /\ NoAggregation /\ NoDistribution

MainSpecNext ==
    \/ main /\ UNCHANGED <<clsVars, aggVars, distVars>>
    \/ walk_dir /\ UNCHANGED <<clsVars, aggVars, distVars>>
    \/ walk_file /\ UNCHANGED <<clsVars, aggVars, distVars>>
    \/ walk_return /\ UNCHANGED <<clsVars, aggVars, distVars>>
    \/ AnyReport /\ UNCHANGED <<clsVars, aggVars, distVars>>

SpecMain == MainSpecInit /\ [][MainSpecNext]_vars

DistSpecInit == DistInit /\ NoClassifierCall /\ NoAggregation /\ NoRun

DistSpecNext ==
    \/ report_file_size_distribution /\ UNCHANGED <<clsVars, aggVars, mainVars>>
    \/ report_no_source_files /\ UNCHANGED <<clsVars, aggVars, mainVars>>

SpecDist == DistSpecInit /\ [][DistSpecNext]_vars

(***************************************************************************)
(* Properties of the classifiers.                                          *)
(***************************************************************************)
Counters == {"code_lines", "comment_lines", "docstring_lines", "blank_lines"}

BraceClassifiers == {"classify_swift_lines", "classify_kotlin_lines"}

\* A step of Spec that runs one iteration of a classifier's loop.
LineStep == cpc = "scan" /\ cpc' = "scan"

\* The line such a step consumes, as the loop sees it after strip().
CurrentStripped == Strip(scan.lines[scan.pos])

\* The step adds one to counter c and leaves the other three alone.
CountedAs(c) ==
    \A d \in Counters :
        scan'.stats[d] = scan.stats[d] + (IF d = c THEN 1 ELSE 0)

\* The line consumed last, after strip() (for states with scan.pos > 1).
LastStripped == Strip(scan.lines[scan.pos - 1])

SumOfCounters(stats) ==
    stats.code_lines + stats.comment_lines + stats.docstring_lines + stats.blank_lines

\* C1 (partition invariant): in every classifier, after any number of lines
\* the four counters sum to the number of lines consumed and total_lines is
\* the number of lines supplied, so the returned record has
\* code + comment + docstring + blank = total_lines = len(lines); and every
\* line adds exactly one to exactly one of the four counters.
C1_Partition ==
    /\ [](cpc = "scan" =>
            /\ scan.stats.total_lines = Len(scan.lines)
            /\ SumOfCounters(scan.stats) = scan.pos - 1
            /\ (AtReturn => SumOfCounters(scan.stats) = scan.stats.total_lines))
    /\ [][LineStep =>
            /\ \E c \in Counters : CountedAs(c)
            /\ scan'.stats.total_lines = scan.stats.total_lines]_vars

\* A call returns a record in which three different categories were counted.
C1_Witness ==
    /\ AtReturn
    /\ scan.stats.total_lines >= 3
    /\ scan.stats.code_lines > 0
    /\ scan.stats.docstring_lines > 0
    /\ scan.stats.blank_lines > 0

\* C2 (blank priority): in every classifier and every classifier state, a
\* line that is empty after strip() is counted as Blank and in no other
\* category.
C2_BlankPriority ==
    [][(LineStep /\ CurrentStripped = <<>>) => CountedAs("blank_lines")]_vars

\* A whitespace-only line has just been counted as Blank inside an open span.
C2_Witness ==
    /\ cpc = "scan"
    /\ scan.pos > 1
    /\ LastStripped = <<>>
    /\ Open(scan)
    /\ scan.stats.blank_lines >= 1

\* The opener a Normal-state line starts a block with, if any: "/*" for the
\* brace classifiers (a "/**" line starts with it too), "<!--" for XML.
OpenerOf(fn) == IF fn \in BraceClassifiers THEN BlockOpen ELSE XmlOpen

CloserOf(fn) == IF fn \in BraceClassifiers THEN BlockClose ELSE XmlClose

\* C3 (single-line collapse): in the Swift, Kotlin and XML classifiers in the
\* Normal state, a line that starts with a block opener and holds the
\* matching closer after it is counted once (Documentation for "/**",
\* Comment for "/*" and "<!--") and leaves the state Normal.
C3_SingleLineCollapse ==
    [][(/\ LineStep
        /\ scan.fn \in BraceClassifiers \cup {"classify_xml_lines"}
        /\ ~Open(scan)
        /\ StartsWith(CurrentStripped, OpenerOf(scan.fn))
        /\ Contains(From(CurrentStripped, Len(OpenerOf(scan.fn))), CloserOf(scan.fn)))
       => /\ CountedAs(IF scan.fn \in BraceClassifiers
                          /\ StartsWith(CurrentStripped, DocBlockOpen)
                       THEN "docstring_lines" ELSE "comment_lines")
          /\ ~Open(scan')]_vars

\* C4 (delimiter fidelity): in the Python classifier a docstring is entered
\* with the delimiter its opening line starts with; while it is open, a
\* non-blank line without that delimiter is Documentation and keeps the span
\* and its delimiter (so a line holding only the other delimiter does not
\* close it), a blank line keeps them too, and a non-blank line holding that
\* delimiter is Documentation and closes the span.
C4_DelimiterFidelity ==
    [][(LineStep /\ scan.fn = "classify_python_lines") =>
         /\ (scan.in_docstring /\ CurrentStripped = <<>>) =>
               /\ scan'.in_docstring
               /\ scan'.docstring_delimiter = scan.docstring_delimiter
         /\ (/\ scan.in_docstring
             /\ CurrentStripped # <<>>
             /\ ~Contains(CurrentStripped, scan.docstring_delimiter)) =>
               /\ CountedAs("docstring_lines")
               /\ scan'.in_docstring
               /\ scan'.docstring_delimiter = scan.docstring_delimiter
         /\ (/\ scan.in_docstring
             /\ CurrentStripped # <<>>
             /\ Contains(CurrentStripped, scan.docstring_delimiter)) =>
               /\ CountedAs("docstring_lines")
               /\ ~scan'.in_docstring
         /\ (~scan.in_docstring /\ scan'.in_docstring) =>
               /\ scan'.docstring_delimiter \in {TripleDouble, TripleSingle}
               /\ StartsWith(CurrentStripped, scan'.docstring_delimiter)]_vars

\* A docstring opened with three double quotes has just consumed a line
\* holding only three single quotes and is still open.
C4_Witness ==
    /\ cpc = "scan"
    /\ scan.fn = "classify_python_lines"
    /\ scan.pos > 2
    /\ LastStripped = TripleSingle
    /\ scan.in_docstring
    /\ scan.docstring_delimiter = TripleDouble
    /\ scan.stats.docstring_lines >= 2

\* A scan that starts in the Normal state: no span open, no delimiter
\* remembered, counters at zero.
NormalStart(fn, language, lines) ==
    [fn |-> fn, lines |-> lines, pos |-> 1,
     stats |-> [path |-> "", total_lines |-> Len(lines), code_lines |-> 0,
                comment_lines |-> 0, docstring_lines |-> 0, blank_lines |-> 0,
                language |-> language],
     in_block_comment |-> FALSE, in_doc_block |-> FALSE,
     in_docstring |-> FALSE, docstring_delimiter |-> None,
     in_comment |-> FALSE]

\* C5 (no state between calls): whatever was classified before, and however
\* that call ended, the record a call returns for its lines is the record of
\* a scan of those lines that starts in the Normal state; and a call starts
\* with no span open.
C5_NoStateAcrossCalls ==
    /\ (cpc = "scan" /\ scan.pos = 1) => ~Open(scan)
    /\ AtReturn =>
         scan.stats = Loop(NormalStart(scan.fn, scan.stats.language, scan.lines)).stats

\* A call made after a call that ended inside an open span returns a record
\* in which a line was counted as Code.
C5_Witness ==
    /\ AtReturn
    /\ hist.after_open
    /\ Len(scan.lines) >= 1
    /\ scan.stats.code_lines >= 1

\* The category the Normal-state rules of the brace classifiers give a
\* non-blank trimmed line: the first of "/**", "/*", "///", "//" it starts with.
FirstMatch(stripped) ==
    IF StartsWith(stripped, DocBlockOpen) THEN "docstring_lines"
    ELSE IF StartsWith(stripped, BlockOpen) THEN "comment_lines"
    ELSE IF StartsWith(stripped, DocLine) THEN "docstring_lines"
    ELSE IF StartsWith(stripped, LineComment) THEN "comment_lines"
    ELSE "code_lines"

\* C10 (opener precedence): in the Swift and Kotlin classifiers in the Normal
\* state a non-blank line is counted by the first of "/**", "/*", "///", "//"
\* its trimmed text starts with (Documentation, Comment, Documentation,
\* Comment), else as Code; a "///" or "//" line leaves the state Normal.
C10_OpenerPrecedence ==
    [][(/\ LineStep
        /\ scan.fn \in BraceClassifiers
        /\ ~Open(scan)
        /\ CurrentStripped # <<>>)
       => /\ CountedAs(FirstMatch(CurrentStripped))
          /\ StartsWith(CurrentStripped, LineComment) => ~Open(scan')]_vars

\* The first line of a brace-classifier scan was a "///" line: it is counted
\* as Documentation and no span is open.
C10_Witness ==
    /\ cpc = "scan"
    /\ scan.fn \in BraceClassifiers
    /\ scan.pos = 2
    /\ StartsWith(LastStripped, DocLine)
    /\ scan.stats.docstring_lines = 1
    /\ ~Open(scan)

\* The category of the span open in the locals of a brace classifier.
SpanCategory(st) == IF st.in_doc_block THEN "docstring_lines" ELSE "comment_lines"

\* C11 (multi-line spans): in the Swift and Kotlin classifiers, while a block
\* comment or doc block is open, every non-blank line is counted in the
\* span's category (Comment, respectively Documentation) whatever it starts
\* with; the span stays as it is when the trimmed line does not hold "*/"
\* and the state is Normal after the line when it does, so the span ends
\* exactly at the first such line, which is itself counted in the span's
\* category; and a non-blank line met in the Normal state, the one after a
\* closing line included, is counted by the Normal-state rules.
C11_SpanUntilCloser ==
    [][(LineStep /\ scan.fn \in BraceClassifiers /\ CurrentStripped # <<>>) =>
         /\ Open(scan) =>
               /\ CountedAs(SpanCategory(scan))
               /\ scan'.stats.code_lines = scan.stats.code_lines
               /\ Contains(CurrentStripped, BlockClose) => ~Open(scan')
               /\ ~Contains(CurrentStripped, BlockClose) =>
                     /\ scan'.in_block_comment = scan.in_block_comment
                     /\ scan'.in_doc_block = scan.in_doc_block
         /\ ~Open(scan) => CountedAs(FirstMatch(CurrentStripped))]_vars

\* A block comment opened by "/*" took a "///" line as Comment and was closed
\* by the third line, which was counted as Comment too.
C11_Witness ==
    /\ AtReturn
    /\ scan.fn \in BraceClassifiers
    /\ Len(scan.lines) = 3
    /\ Strip(scan.lines[1]) = BlockOpen
    /\ StartsWith(Strip(scan.lines[2]), DocLine)
    /\ Contains(Strip(scan.lines[3]), BlockClose)
    /\ scan.stats.comment_lines = 3
    /\ ~Open(scan)

\* The triple-quote delimiters a trimmed line starts with (one at most).
StartDelimiters(stripped) == {d \in {TripleDouble, TripleSingle} : StartsWith(stripped, d)}

\* C12 (Python, Normal state): a non-blank line that starts with a
\* triple-quote delimiter and holds the same delimiter again after it is
\* counted once as Documentation and leaves the state Normal; one that holds
\* it only at its start is counted as Documentation and enters the docstring
\* state with that delimiter remembered; a line that starts with "#" is
\* Comment and any other non-blank line is Code, both leaving the state Normal.
C12_PythonNormalState ==
    [][(/\ LineStep
        /\ scan.fn = "classify_python_lines"
        /\ ~scan.in_docstring
        /\ CurrentStripped # <<>>) =>
         /\ \A d \in StartDelimiters(CurrentStripped) :
               /\ CountedAs("docstring_lines")
               /\ Contains(From(CurrentStripped, 3), d) =>
                     /\ ~scan'.in_docstring
                     /\ scan'.docstring_delimiter = None
               /\ ~Contains(From(CurrentStripped, 3), d) =>
                     /\ scan'.in_docstring
                     /\ scan'.docstring_delimiter = d
         /\ StartDelimiters(CurrentStripped) = {} =>
               /\ CountedAs(IF StartsWith(CurrentStripped, Hash)
                            THEN "comment_lines" ELSE "code_lines")
               /\ ~scan'.in_docstring]_vars

\* A one-line docstring was counted and left the state Normal, and the line
\* after it, opening with the delimiter alone, entered the docstring state.
C12_Witness ==
    /\ cpc = "scan"
    /\ scan.fn = "classify_python_lines"
    /\ scan.pos = 3
    /\ StartsWith(Strip(scan.lines[1]), TripleDouble)
    /\ Contains(From(Strip(scan.lines[1]), 3), TripleDouble)
    /\ Strip(scan.lines[2]) = TripleSingle
    /\ scan.stats.docstring_lines = 2
    /\ scan.in_docstring
    /\ scan.docstring_delimiter = TripleSingle

\* The comment markers of the two classifiers without multi-line state.
MarkersOf(fn) == IF fn = "classify_yaml_lines" THEN {Hash} ELSE {Hash, LineComment}

\* C13 (categories a grammar cannot produce): the XML classifier never counts
\* a Documentation line; the Markdown classifier never counts a Code or
\* Comment line and counts every non-blank line as Documentation; the YAML
\* and fallback classifiers never count a Documentation line, never open a
\* span, and count a line as Comment iff its trimmed text starts with "#"
\* (the fallback: with "#" or "//"), whatever the lines before it were, and
\* any other non-blank line as Code.
C13_AbsentCategories ==
    /\ [](cpc = "scan" =>
            /\ scan.fn = "classify_xml_lines" => scan.stats.docstring_lines = 0
            /\ scan.fn = "classify_markdown_lines" =>
                  /\ scan.stats.code_lines = 0
                  /\ scan.stats.comment_lines = 0
                  /\ ~Open(scan)
            /\ scan.fn \in {"classify_yaml_lines", "classify_generic_lines"} =>
                  /\ scan.stats.docstring_lines = 0
                  /\ ~Open(scan))
    /\ [][LineStep =>
            /\ (scan.fn = "classify_markdown_lines" /\ CurrentStripped # <<>>) =>
                  CountedAs("docstring_lines")
            /\ scan.fn \in {"classify_yaml_lines", "classify_generic_lines"} =>
                  /\ CountedAs("comment_lines") <=>
                        \E mk \in MarkersOf(scan.fn) : StartsWith(CurrentStripped, mk)
                  /\ CountedAs("code_lines") <=>
                        /\ CurrentStripped # <<>>
                        /\ \A mk \in MarkersOf(scan.fn) : ~StartsWith(CurrentStripped, mk)]_vars

\* A YAML scan counted a "#" line as Comment and a "//" line as Code.
C13_Witness ==
    /\ AtReturn
    /\ scan.fn = "classify_yaml_lines"
    /\ \E i, j \in DOMAIN scan.lines :
          /\ StartsWith(Strip(scan.lines[i]), Hash)
          /\ StartsWith(Strip(scan.lines[j]), LineComment)
    /\ scan.stats.comment_lines = 1
    /\ scan.stats.code_lines = 1
    /\ scan.stats.docstring_lines = 0

\* The state of a brace classifier: Normal, InComment or InDoc (or, were
\* both flags set, Both).
BraceState(st) ==
    IF st.in_block_comment /\ st.in_doc_block THEN "Both"
    ELSE IF st.in_block_comment THEN "InComment"
    ELSE IF st.in_doc_block THEN "InDoc"
    ELSE "Normal"

\* C16 (one span at a time): in the Swift and Kotlin classifiers
\* in_block_comment and in_doc_block are never both true, so after any
\* prefix of any input the classifier is in exactly one of the states
\* Normal, InComment, InDoc; and a blank line leaves the state as it is.
C16_ExclusiveSpans ==
    /\ []((cpc = "scan" /\ scan.fn \in BraceClassifiers) =>
            /\ ~(scan.in_block_comment /\ scan.in_doc_block)
            /\ BraceState(scan) \in {"Normal", "InComment", "InDoc"}
            /\ ~scan.in_docstring /\ ~scan.in_comment)
    /\ [][(LineStep /\ scan.fn \in BraceClassifiers /\ CurrentStripped = <<>>) =>
            /\ scan'.in_block_comment = scan.in_block_comment
            /\ scan'.in_doc_block = scan.in_doc_block]_vars

\* A doc block was opened, a blank line followed, and the state is still
\* InDoc with the comment flag down.
C16_Witness ==
    /\ cpc = "scan"
    /\ scan.fn \in BraceClassifiers
    /\ scan.pos = 3
    /\ StartsWith(Strip(scan.lines[1]), DocBlockOpen)
    /\ LastStripped = <<>>
    /\ BraceState(scan) = "InDoc"
    /\ scan.stats.blank_lines = 1

\* The other of the two brace classifiers, and the language tag it writes.
Twin(fn) ==
    IF fn = "classify_swift_lines" THEN "classify_kotlin_lines" ELSE "classify_swift_lines"

TwinLanguage(fn) == IF fn = "classify_swift_lines" THEN "Kotlin" ELSE "Swift"

\* The locals after the first n iterations of the loop.
RECURSIVE AfterLines(_, _)
AfterLines(st, n) == IF n = 0 THEN st ELSE LoopBody(AfterLines(st, n - 1))

\* C17 (Swift and Kotlin are one state machine): after every line of every
\* input, the Swift and the Kotlin classifier are in the same state and have
\* the same total, code, comment, docstring and blank counts; the records
\* they return differ in the language tag and in nothing else.
C17_SwiftKotlinEquivalent ==
    (cpc = "scan" /\ scan.fn \in BraceClassifiers) =>
        LET twin == AfterLines(NormalStart(Twin(scan.fn), TwinLanguage(scan.fn), scan.lines),
                               scan.pos - 1)
        IN  /\ twin.in_block_comment = scan.in_block_comment
            /\ twin.in_doc_block = scan.in_doc_block
            /\ twin.stats.total_lines = scan.stats.total_lines
            /\ \A c \in Counters : twin.stats[c] = scan.stats[c]
            /\ twin.stats.language # scan.stats.language
            /\ [twin.stats EXCEPT !.language = scan.stats.language] = scan.stats

\* A Kotlin scan has returned a record with a "///" line and a "/**" block
\* counted as Documentation and a line counted as Code.
C17_Witness ==
    /\ AtReturn
    /\ scan.fn = "classify_kotlin_lines"
    /\ scan.stats.language = "Kotlin"
    /\ \E i, j \in DOMAIN scan.lines :
          /\ StartsWith(Strip(scan.lines[i]), DocLine)
          /\ StartsWith(Strip(scan.lines[j]), DocBlockOpen)
    /\ scan.stats.docstring_lines = 2
    /\ scan.stats.code_lines = 1

(***************************************************************************)
(* Properties of the aggregation.                                          *)
(***************************************************************************)
\* The aggregated totals of a PlatformStats.
Totals(p) ==
    [total_files |-> total_files(p), total_lines |-> total_lines(p),
     code_lines |-> code_lines(p), comment_lines |-> comment_lines(p),
     docstring_lines |-> docstring_lines(p), blank_lines |-> blank_lines(p),
     file_lengths |-> file_lengths(p)]

\* Every record of the run has been appended by the one scan and by a partial scan.
AllAppended == Len(ps.files) = Len(arrivals) /\ taken = DOMAIN arrivals

\* C6 (aggregation is order- and split-independent): once the same records
\* have been appended to one PlatformStats in one order and to two partial
\* ones in any other order and split, the totals of the first equal the
\* component-wise sums of the two partial totals, its sorted file lengths
\* are the sorted merge of theirs, and they equal the totals of the partial
\* lists merged into one PlatformStats (in particular of one list holding
\* all the records in another order).
C6_AggregationCommutes ==
    AllAppended =>
        /\ total_files(ps) = total_files(workers[1]) + total_files(workers[2])
        /\ total_lines(ps) = total_lines(workers[1]) + total_lines(workers[2])
        /\ code_lines(ps) = code_lines(workers[1]) + code_lines(workers[2])
        /\ comment_lines(ps) = comment_lines(workers[1]) + comment_lines(workers[2])
        /\ docstring_lines(ps) = docstring_lines(workers[1]) + docstring_lines(workers[2])
        /\ blank_lines(ps) = blank_lines(workers[1]) + blank_lines(workers[2])
        /\ file_lengths(ps) = Sorted(file_lengths(workers[1]) \o file_lengths(workers[2]))
        /\ Totals(ps) = Totals([ps EXCEPT !.files = workers[1].files \o workers[2].files])
        /\ Totals(ps) = Totals([ps EXCEPT !.files = workers[2].files \o workers[1].files])

\* Three records were split over both partial scans, and met in an order
\* that is neither the one scan's order nor the order of their lengths.
C6_Witness ==
    /\ AllAppended
    /\ Len(arrivals) >= 3
    /\ workers[1].files # <<>>
    /\ workers[2].files # <<>>
    /\ workers[1].files \o workers[2].files # ps.files
    /\ FileLengthsUnsorted(ps) # file_lengths(ps)
    /\ total_lines(ps) >= 4

(***************************************************************************)
(* Properties of the file size distribution.                               *)
(***************************************************************************)
\* The files of all_src whose total_lines lies in (low, high], which for
\* low = 0 is [1, high].
FilesInRange(low, high) ==
    {i \in DOMAIN all_src :
        IF low = 0
        THEN 1 <= all_src[i].total_lines /\ all_src[i].total_lines <= high
        ELSE low < all_src[i].total_lines /\ all_src[i].total_lines <= high}

\* C14 (bucket counts): the count _bucket_count returns for a bucket
\* (low, high) is the number of files whose total_lines lies in (low, high],
\* and for low = 0 the number of files whose total_lines lies in [1, high].
C14_BucketCount ==
    all_src # <<>> =>
        \A k \in DOMAIN rows :
            rows[k].count = Cardinality(FilesInRange(SIZE_BUCKETS[k][1], SIZE_BUCKETS[k][2]))

(***************************************************************************)
(* Properties of main and walk_project.                                    *)
(***************************************************************************)
PlatformNames ==
    {"iOS", "watchOS", "macOS", "Android Core", "Android App", "Android (config)",
     "Shared (Apple)", "Tests", "Documentation", "CI/CD", "Route Template",
     "Scripts", "Root"}

\* The file's extension is one walk_project analyses.
InScope(f) ==
    SuffixLower(f.name) \in SOURCE_EXTENSIONS \cup DOC_EXTENSIONS \cup CONFIG_EXTENSIONS

\* Some directory between the root and the file is pruned.
UnderPruned(f) == \E k \in 1..Len(f.dir) : ~Keep(f.dir[k])

\* The files walk_project has to produce a record for.
Eligible(f) == f.readable /\ InScope(f) /\ ~UnderPruned(f)

\* The places records are held at: <<platform, index in its files list>>.
Held == UNION {{<<p, k>> : k \in 1..Len(platforms[p].files)} : p \in DOMAIN platforms}

RecordAt(h) == platforms[h[1]].files[h[2]]

\* walk_project has been called and has returned.
WalkReturned == walk_called /\ mpc \in {"report", "exited"}

\* What analysing file g alone gives, under the path relative to the root.
RecordOf(g) == [analyze_file(g)[1] EXCEPT !.path = Parts(g)]

\* C7 (unreadable files are skipped): no record is ever held for a file whose
\* open or read fails; and when walk_project has returned, open() has been
\* tried on every in-scope file outside the pruned directories (the walk went
\* on past the failures), and each platform group exists iff some readable
\* such file belongs to it and holds exactly the records of those files,
\* each as the analysis of that file alone gives it: what it would be with
\* the unreadable files absent.
C7_UnreadableSkipped ==
    /\ \A h \in Held : \A f \in fs : RecordAt(h).path = Parts(f) => f.readable
    /\ WalkReturned =>
        /\ \A f \in fs : (InScope(f) /\ ~UnderPruned(f)) =>
              \E k \in DOMAIN opened : opened[k] = Parts(f)
        /\ \A p \in PlatformNames :
              LET others == {g \in fs : Eligible(g) /\ detect_platform(Parts(g)) = p}
              IN  /\ (p \in DOMAIN platforms) <=> (others # {})
                  /\ p \in DOMAIN platforms =>
                        /\ {platforms[p].files[k] : k \in 1..Len(platforms[p].files)}
                             = {RecordOf(g) : g \in others}
                        /\ Len(platforms[p].files) = Cardinality(others)

\* walk_project has returned after open() failed on one file and a file
\* opened later got its record.
C7_Witness ==
    /\ WalkReturned
    /\ \E i, j \in DOMAIN opened :
          /\ i < j
          /\ \E f \in fs : Parts(f) = opened[i] /\ ~f.readable
          /\ \E h \in Held : RecordAt(h).path = opened[j]

\* C8 (invalid root is fatal before any traversal): when the root is not a
\* directory, main never calls walk_project, opens no file, holds no record
\* and prints no report, and when it has exited it has done so with a
\* non-zero status after an error message on stderr.
C8_InvalidRootFatal ==
    (mpc # "idle" /\ ~root_is_dir) =>
        /\ ~walk_called
        /\ mpc \in {"start", "exited"}
        /\ opened = <<>>
        /\ DOMAIN platforms = {}
        /\ stdout = ""
        /\ mpc = "exited" => (exit_status > 0 /\ stderr # "")

\* main has exited with status 1 on a root that is not a directory.
C8_Witness ==
    /\ ~root_is_dir
    /\ mpc = "exited"
    /\ exit_status = 1
    /\ stderr # ""

\* C9 (one record per scanned file, append-only groups): at all times no
\* file has two records and every record held is that of a readable,
\* in-scope file under no pruned directory, held in the group detect_platform
\* gives its path; when walk_project has returned every such file has exactly
\* one record; and every step of the walk leaves each group's list as it was
\* or with one record appended.
C9_OneRecordPerFile ==
    /\ [](/\ \A h1, h2 \in Held : RecordAt(h1).path = RecordAt(h2).path => h1 = h2
          /\ \A h \in Held :
                \E f \in fs : /\ Parts(f) = RecordAt(h).path
                              /\ Eligible(f)
                              /\ h[1] = detect_platform(Parts(f))
          /\ WalkReturned =>
                \A f \in fs : Eligible(f) =>
                    Cardinality({h \in Held : RecordAt(h).path = Parts(f)}) = 1)
    /\ [][\A p \in DOMAIN platforms :
            /\ p \in DOMAIN platforms'
            /\ Len(platforms'[p].files) \in
                 {Len(platforms[p].files), Len(platforms[p].files) + 1}
            /\ SubSeq(platforms'[p].files, 1, Len(platforms[p].files))
                 = platforms[p].files]_vars

\* walk_project has returned two groups, one of them with two records.
C9_Witness ==
    /\ WalkReturned
    /\ Cardinality(DOMAIN platforms) >= 2
    /\ \E p \in DOMAIN platforms : Len(platforms[p].files) >= 2

GitHubDir == <<".", "github">>

\* The rule for descending into a subdirectory named n.
Descended(n) == n = GitHubDir \/ (n \notin SKIP_DIRS /\ ~StartsWith(n, Dot))

\* A step in which os.walk yields a directory and the loop prunes its dirnames.
YieldStep == mpc = "walk" /\ filenames = <<>> /\ stack # <<>> /\ stack' # stack

\* The directories such a step leaves for os.walk to descend into.
Pushed == {stack'[k] : k \in 1..(Len(stack') - Len(stack) + 1)}

\* Every subdirectory of the yielded directory is descended into iff the rule
\* admits its name, and no record is held for a file below a pruned directory.
PrunedAsRuled ==
    /\ [][YieldStep =>
            Pushed = {Append(Head(stack), n) :
                        n \in {x \in SubDirs(fs, Head(stack)) : Descended(x)}}]_vars
    /\ [](/\ \A k \in DOMAIN stack : \A i \in DOMAIN stack[k] : Descended(stack[k][i])
          /\ \A h \in Held : \A f \in fs :
                RecordAt(h).path = Parts(f) => \A i \in DOMAIN f.dir : Descended(f.dir[i]))

\* When walk_project has returned, open() was tried on file f and, if f is
\* readable, platform group g holds its record.
AnalysedInto(f, g) ==
    /\ \E k \in DOMAIN opened : opened[k] = Parts(f)
    /\ f.readable =>
          /\ g \in DOMAIN platforms
          /\ \E k \in DOMAIN platforms[g].files : platforms[g].files[k].path = Parts(f)

\* The in-scope files that lie below no pruned directory and below a
\* ".github" directory anywhere on their path.
UnderGitHub ==
    {f \in fs : /\ InScope(f)
                /\ \A i \in DOMAIN f.dir : Descended(f.dir[i])
                /\ \E i \in DOMAIN f.dir : f.dir[i] = GitHubDir}

\* Those of them whose ".github" directory is the one at the top of the tree.
UnderTopGitHub == {f \in UnderGitHub : f.dir[1] = GitHubDir}

\* C15 (pruning), as claimed: a subdirectory is descended into iff its name
\* is ".github", or is not in SKIP_DIRS and does not start with "."; no
\* record is produced for a file with a pruned directory on its path; and
\* the files under ".github" are analysed and grouped as CI/CD.
C15_GitHubIsCICD ==
    /\ PrunedAsRuled
    /\ [](WalkReturned => \A f \in UnderGitHub : AnalysedInto(f, "CI/CD"))

\* C15 amended: the same rule of descent and the same absence of records
\* below pruned directories; the files under a ".github" directory at the
\* top of the tree are analysed and grouped as CI/CD, and the files under a
\* ".github" directory deeper in the tree are analysed too and grouped as the
\* start of their path has it (under "docs": Documentation), not as CI/CD.
C15_TopGitHubIsCICD ==
    /\ PrunedAsRuled
    /\ [](WalkReturned =>
            /\ \A f \in UnderTopGitHub : AnalysedInto(f, "CI/CD")
            /\ \A f \in UnderGitHub \ UnderTopGitHub :
                  /\ \E g \in PlatformNames \ {"CI/CD"} : AnalysedInto(f, g)
                  /\ f.dir[1] = <<"docs">> => AnalysedInto(f, "Documentation")
                  /\ "CI/CD" \in DOMAIN platforms =>
                        \A k \in DOMAIN platforms["CI/CD"].files :
                            platforms["CI/CD"].files[k].path # Parts(f))

\* A walk has returned from a tree with a file under the top-level ".github",
\* one under "docs/.github" and one under a pruned hidden directory: the
\* first is held as CI/CD, the second as Documentation, the third nowhere.
C15_Witness ==
    /\ WalkReturned
    /\ \E f \in UnderTopGitHub : f.readable
    /\ \E f \in UnderGitHub \ UnderTopGitHub : f.readable
    /\ \E f \in fs : /\ InScope(f) /\ f.readable /\ f.dir # <<>>
                     /\ StartsWith(f.dir[1], Dot) /\ f.dir[1] # GitHubDir
    /\ DOMAIN platforms = {"CI/CD", "Documentation"}
    /\ Len(platforms["CI/CD"].files) = 1
    /\ Len(platforms["Documentation"].files) = 1

====
